---- MODULE Spec2Model ----
(***************************************************************************)
(* Model of the Latticework AmberOS integration's device session facade    *)
(* (AmberOSApi, custom_components/latticework_amberos/__init__.py): the    *)
(* subscription table, the per-group fetch flags and handles, setup(),     *)
(* the central update() pass, the cast_update() pass and the reload        *)
(* request issued on a login-invalid failure; the user commands            *)
(* (media_player.py, select.py, the reboot, shutdown and cast_play         *)
(* services) with the cast coordinator's lock, and the entry unload.       *)
(* Spec is the facade with its polls and subscribers; SpecFair is Spec     *)
(* under the event loop's fairness; SpecCmd adds the commands and the      *)
(* unload, with one subscriber per group; SpecLock has two media-player    *)
(* commands contending for the lock; SpecService is the service handler    *)
(* over the registered devices.                                            *)
(*                                                                         *)
(* Every `await hass.async_add_executor_job(...)` is a suspension point:   *)
(* the handler is split there into a Begin step (the synchronous prefix,   *)
(* up to and including the dispatch of the blocking call with its          *)
(* arguments evaluated) and a Done step (the outcome of the blocking call  *)
(* and the synchronous rest of the handler).  @callback functions          *)
(* (subscribe, unsubscribe, _async_setup_api_requests) run atomically on   *)
(* the event loop.                                                         *)
(***************************************************************************)
EXTENDS Naturals, FiniteSets, TLC

\* ------------------------------------------------------------------ bounds
\* Number of distinct (group, subscriber id) unsubscribe closures a facade
\* hands out before the model stops issuing new ones.
MaxClosures == 2

\* ---------------------------------------------------------------- constants
\* The capability groups: the API handles AmberOSApi.__init__ declares.
Groups ==
    {"information", "network", "security", "storage", "backup",
     "system", "upgrade", "utilisation", "cast"}

\* The groups that have a `_with_<group>` fetch flag (network has none).
FlagGroups == Groups \ {"network"}

\* The groups whose handle _async_setup_api_requests resets when the flag is
\* off ("information is not reset since it's used in device_info").
ResetGroups == Groups \ {"information", "network"}

\* Subscriber identifiers (entity unique ids).
Ids == {"e1", "e2"}

\* The api keys the model's entities subscribe with: information (a flag but
\* no reset), storage (one of the groups gated alike: security, storage,
\* upgrade, utilisation, backup) and cast, which has a poll of its own.
ApiKeys == {"information", "storage", "cast"}

\* Outcomes of a blocking device call.
Outcomes == {"ok", "login_invalid", "other"}

VARIABLES
    entry,              \* lifecycle of the config entry
    pc_setup,           \* position of AmberOSApi.async_setup
    amberos,            \* TRUE once the LatticeworkAmberOS session object exists
    apis_system,        \* bool(self.amberos.apis.get(AmberOSSystem.API_KEY))
    initialized,        \* self.initialized
    handle,             \* handle[g]: self.<g> is not None
    with_api,           \* with_api[g]: self._with_<g>
    fetching_entities,  \* self._fetching_entities: group -> set of ids
    closures,           \* unsubscribe closures handed out: <<group, id>>
    last_sub,           \* what the last subscribe / unsubscribe call did
    upd,                \* the async_update call in flight or last finished
    cst,                \* the async_cast_update call in flight or last finished
    setup_calls,        \* device calls made so far by the running/last setup()
    setup_raised,       \* the exception async_setup raised, "none" if none
    reload_requests,    \* config_entries.async_reload calls since entry setup
    state_lock,         \* AmberOSCastCoordinator.state_lock: "free" or "held"
    cmd,                \* the user command in flight or last finished
    unl,                \* async_unload_entry: position and logout calls made
    cmd2,               \* a second media-player command: it can wait on the lock
    svc                 \* hass.data[DOMAIN] and the service call being handled

vars ==
    <<entry, pc_setup, amberos, apis_system, initialized, handle, with_api,
      fetching_entities, closures, last_sub, upd, cst, setup_calls,
      setup_raised, reload_requests, state_lock, cmd, unl, cmd2, svc>>

\* The state of the cast coordinator's lock, of the user commands, of the
\* entry unload and of the service handler.
cmd_vars == <<state_lock, cmd, unl, cmd2, svc>>

\* ------------------------------------------------------- subscription table
EmptyTable == [g \in {} |-> {}]

\* bool(self._fetching_entities.get(key)): key present with a non-empty set.
HasSubscriber(t, g) == g \in DOMAIN t /\ t[g] # {}

\* Mutant of SubscribeTable: line 260 toggles the id (`^= {unique_id}`)
\* instead of adding it.
SubscribeTableToggle(t, g, id) ==
    LET t1 == IF g \notin DOMAIN t
              THEN [k \in DOMAIN t \cup {g} |-> IF k = g THEN {} ELSE t[k]]
              ELSE t
    IN [t1 EXCEPT ![g] = (@ \ {id}) \cup ({id} \ @)]

\* subscribe(api_key, unique_id), lines 258-260.
SubscribeTable(t, g, id) ==
    LET t1 == IF g \notin DOMAIN t
              THEN [k \in DOMAIN t \cup {g} |-> IF k = g THEN {} ELSE t[k]]
              ELSE t
    IN [t1 EXCEPT ![g] = @ \cup {id}]

\* The closure's `self._fetching_entities[api_key].remove(unique_id)` raises
\* KeyError when the group entry is gone or the id is not in the set.
UnsubscribeRaises(t, g, id) == g \notin DOMAIN t \/ id \notin t[g]

\* Mutant of UnsubscribeTable: the emptied group entry is not popped
\* (lines 267-268 dropped).
UnsubscribeTableKeepEmpty(t, g, id) == [t EXCEPT ![g] = @ \ {id}]

\* The table after subscribe.unsubscribe ran without raising.
UnsubscribeTable(t, g, id) ==
    LET t1 == [t EXCEPT ![g] = @ \ {id}]
    IN IF Cardinality(t1[g]) = 0
       THEN [k \in DOMAIN t1 \ {g} |-> t1[k]]
       ELSE t1

\* ------------------------------------------------------------ gate evaluation
\* Mutant of GateFlags: _with_storage reads the cast key (a copy-paste slip
\* in line 287).
GateFlagsKeyMixup(t, fl, sys) ==
    IF DOMAIN t = {}
    THEN fl
    ELSE [g \in FlagGroups |->
            IF g = "system" THEN sys
            ELSE IF g = "storage" THEN HasSubscriber(t, "cast")
            ELSE HasSubscriber(t, g)]

\* Mutant of GateFlags: _with_information is left true (line 292 dropped).
GateFlagsInformationKept(t, fl, sys) ==
    IF DOMAIN t = {}
    THEN fl
    ELSE [g \in FlagGroups |->
            IF g = "system" THEN sys
            ELSE IF g = "information" THEN fl[g]
            ELSE HasSubscriber(t, g)]

\* Mutant of GateFlags: no early return on an empty table (lines 276-280
\* dropped).
GateFlagsNoBootstrap(t, fl, sys) ==
    [g \in FlagGroups |-> IF g = "system" THEN sys ELSE HasSubscriber(t, g)]

\* The flags after _async_setup_api_requests (lines 276-300).
GateFlags(t, fl, sys) ==
    IF DOMAIN t = {}
    THEN fl
    ELSE [g \in FlagGroups |->
            IF g = "system" THEN sys ELSE HasSubscriber(t, g)]

\* Mutant of GateHandles: no handle is reset (lines 303-354 dropped).
GateHandlesNoReset(t, fl, h) == h

\* Mutant of GateHandles: a group whose flag is on gets its handle back.
GateHandlesReacquire(t, fl, h) ==
    IF DOMAIN t = {}
    THEN h
    ELSE [g \in Groups |-> IF g \in ResetGroups THEN fl[g] ELSE h[g]]

\* Mutant of GateHandles: the storage reset tests the security flag (a
\* copy-paste slip in line 318).
GateHandlesStorageKey(t, fl, h) ==
    IF DOMAIN t = {}
    THEN h
    ELSE [g \in Groups |->
            IF g = "storage" /\ ~fl["security"] THEN FALSE
            ELSE IF g \in ResetGroups /\ g # "storage" /\ ~fl[g] THEN FALSE
            ELSE h[g]]

\* Mutant of GateHandles: the information handle is reset like the others
\* when its flag is off.
GateHandlesResetInformation(t, fl, h) ==
    IF DOMAIN t = {}
    THEN h
    ELSE [g \in Groups |->
            IF g \in ResetGroups \cup {"information"} /\ ~fl[g] THEN FALSE
            ELSE h[g]]

\* The handles after _async_setup_api_requests (lines 302-354), fl being the
\* flags it has just computed.
GateHandles(t, fl, h) ==
    IF DOMAIN t = {}
    THEN h
    ELSE [g \in Groups |->
            IF g \in ResetGroups /\ ~fl[g] THEN FALSE ELSE h[g]]

\* The handles after _fetch_device_configuration ran to the end.
FetchConfigHandles(fl, h) ==
    [g \in Groups |->
        IF g \in {"information", "network"} THEN TRUE
        ELSE IF fl[g] THEN TRUE ELSE h[g]]

\* ---------------------------------------------------------------------- init
IdleCall == [pc |-> "idle", caller |-> "none", arg |-> FALSE,
             init_seen |-> FALSE, err |-> "none", outcome |-> "none",
             reloads |-> 0]

NoSetupCalls == [information_update |-> 0, network_update |-> 0,
                 update_with_information |-> 0,
                 update_without_information |-> 0]

\* The state AmberOSApi.__init__ leaves (lines 211-233).
FacadeInit ==
    /\ pc_setup = "start"
    /\ amberos = FALSE
    /\ initialized = FALSE
    /\ handle = [g \in Groups |-> FALSE]
    /\ with_api = [g \in FlagGroups |-> TRUE]
    /\ fetching_entities = EmptyTable
    /\ closures = {}
    /\ last_sub = "none"
    /\ upd = IdleCall
    /\ cst = IdleCall
    /\ setup_calls = NoSetupCalls
    /\ setup_raised = "none"

\* No user command has been issued.
IdleCmd ==
    [pc |-> "idle", kind |-> "none", err |-> "none", outcome |-> "none",
     refresh |-> "none"]

\* No second media-player command.
IdleCmd2 == [pc |-> "idle", waited |-> FALSE]

\* hass.data[DOMAIN] with no device registered and no service call handled.
IdleSvc ==
    [devices |-> {}, loaded |-> {}, pc |-> "idle", service |-> "none",
     serial |-> "", sent |-> "none"]

\* async_unload_entry has not been called.
IdleUnload == [pc |-> "idle", logouts |-> 0]

Init ==
    /\ entry = "setting_up"
    /\ apis_system \in BOOLEAN
    /\ reload_requests = 0
    /\ FacadeInit
    /\ state_lock = "free"
    /\ cmd = IdleCmd
    /\ unl = IdleUnload
    /\ cmd2 = IdleCmd2
    /\ svc = IdleSvc


\* ------------------------------------------------------------------- helpers
\* async_setup_entry after api.async_setup() raised: AmberOSLoginInvalidException
\* is caught and logged and the entry is loaded all the same (lines 75-128); any
\* other exception leaves async_setup_entry.
EntryAfterSetupRaise(err) ==
    IF err = "login_invalid" THEN "loaded" ELSE "setup_error"

\* The record of a call whose blocking device call has just been dispatched.
Dispatched(caller, arg) ==
    [pc |-> "fetching", caller |-> caller, arg |-> arg, init_seen |-> FALSE,
     err |-> "none", outcome |-> "none", reloads |-> 0]

\* Mutant of Finished: the login-invalid failure is only logged, no reload is
\* requested (lines 468 / 490 dropped).
FinishedNoReload(call, res, init) ==
    [call EXCEPT
        !.pc = "done",
        !.caller = "none",
        !.arg = FALSE,
        !.err = res,
        !.init_seen = init,
        !.outcome = IF res = "ok" THEN "returned"
                    ELSE IF res = "login_invalid" /\ init THEN "returned"
                    ELSE "raised",
        !.reloads = 0]

\* Mutant of Finished: the `if not self.initialized: raise err` test
\* (lines 457-458 / 479-480) dropped: every login-invalid failure asks for a
\* reload and returns.
FinishedReloadUninitialized(call, res, init) ==
    [call EXCEPT
        !.pc = "done",
        !.caller = "none",
        !.arg = FALSE,
        !.err = res,
        !.init_seen = init,
        !.outcome = IF res \in {"ok", "login_invalid"} THEN "returned"
                    ELSE "raised",
        !.reloads = IF res = "login_invalid" THEN 1 ELSE 0]

\* Mutant of Finished: the except clause catches Exception instead of
\* AmberOSLoginInvalidException (lines 456 / 478).
FinishedCatchAll(call, res, init) ==
    [call EXCEPT
        !.pc = "done",
        !.caller = "none",
        !.arg = FALSE,
        !.err = res,
        !.init_seen = init,
        !.outcome = IF res = "ok" \/ init THEN "returned" ELSE "raised",
        !.reloads = IF res # "ok" /\ init THEN 1 ELSE 0]

\* What the `except AmberOSLoginInvalidException` clause of async_update and
\* async_cast_update does with the outcome of the blocking call
\* (lines 456-469, 478-491): the finished call's record.
Finished(call, res, init) ==
    [call EXCEPT
        !.pc = "done",
        !.caller = "none",
        !.arg = FALSE,
        !.err = res,
        !.init_seen = init,
        !.outcome = IF res = "ok" THEN "returned"
                    ELSE IF res = "login_invalid" /\ init THEN "returned"
                    ELSE "raised",
        !.reloads = IF res = "login_invalid" /\ init THEN 1 ELSE 0]

\* ---------------------------------------------------------- async_setup steps
\* async_setup, lines 237-246: build the session object, dispatch login.
SetupBegin ==
    /\ entry = "setting_up"
    /\ pc_setup = "start"
    /\ amberos' = TRUE
    /\ pc_setup' = "login"
    /\ UNCHANGED <<entry, apis_system, initialized, handle, with_api,
                   fetching_entities, closures, last_sub, upd, cst,
                   setup_calls, setup_raised, reload_requests>>
    /\ UNCHANGED cmd_vars

\* async_setup, lines 246-250: login returned or raised; on return the gate
\* is evaluated and _fetch_device_configuration is dispatched.
SetupLoginDone(res) ==
    /\ entry = "setting_up"
    /\ pc_setup = "login"
    /\ IF res = "ok"
       THEN /\ with_api' = GateFlags(fetching_entities, with_api, apis_system)
            /\ handle' = GateHandles(fetching_entities, with_api', handle)
            /\ pc_setup' = "config"
            /\ entry' = entry
       ELSE /\ pc_setup' = "failed"
            /\ entry' = EntryAfterSetupRaise(res)
            /\ UNCHANGED <<with_api, handle>>
    /\ setup_raised' = IF res = "ok" THEN setup_raised ELSE res
    /\ UNCHANGED <<amberos, apis_system, initialized, fetching_entities,
                   closures, last_sub, upd, cst, setup_calls, reload_requests>>
    /\ UNCHANGED cmd_vars

\* The gate evaluation and the dispatch that open async_update
\* (lines 450-455), h being the handles it starts from;
\* `self._with_information` is read after the evaluation.
UpdateDispatch(caller, h) ==
    /\ with_api' = GateFlags(fetching_entities, with_api, apis_system)
    /\ handle' = GateHandles(fetching_entities, with_api', h)
    /\ upd' = Dispatched(caller, with_api'["information"])

\* _fetch_device_configuration (lines 356-391) ran in the executor.  `at` is
\* where it stopped: "end", or the update() call that raised `err`.  On "end"
\* async_setup goes on into async_update (line 251).
SetupConfigDone(at, err) ==
    /\ entry = "setting_up"
    /\ pc_setup = "config"
    /\ IF at = "end"
       THEN /\ UpdateDispatch("setup", FetchConfigHandles(with_api, handle))
            /\ pc_setup' = "update"
            /\ entry' = entry
       ELSE /\ handle' = [handle EXCEPT
                            !["information"] = TRUE,
                            !["network"] = IF at = "network" THEN TRUE ELSE @]
            /\ pc_setup' = "failed"
            /\ entry' = EntryAfterSetupRaise(err)
            /\ UNCHANGED <<with_api, upd>>
    /\ setup_calls' =
         [setup_calls EXCEPT
            !.information_update = @ + 1,
            !.network_update = IF at = "information" THEN @ ELSE @ + 1,
            !.update_with_information =
                IF at = "end" /\ upd'.arg THEN @ + 1 ELSE @,
            !.update_without_information =
                IF at = "end" /\ ~upd'.arg THEN @ + 1 ELSE @]
    /\ setup_raised' = IF at = "end" THEN setup_raised ELSE err
    /\ UNCHANGED <<amberos, apis_system, initialized, fetching_entities,
                   closures, last_sub, cst, reload_requests>>
    /\ UNCHANGED cmd_vars

\* ------------------------------------------------------------- async_update
\* A scheduled central poll enters async_update (lines 108-114, 448-455).
UpdateBegin ==
    /\ entry = "loaded"
    /\ upd.pc # "fetching"
    /\ UpdateDispatch("poll", handle)
    /\ UNCHANGED <<entry, pc_setup, amberos, apis_system, initialized,
                   fetching_entities, closures, last_sub, cst, setup_calls,
                   setup_raised, reload_requests>>
    /\ UNCHANGED cmd_vars

\* The blocking amberos.update returned or raised (lines 456-469).  Called
\* from async_setup, a return sets initialized (line 252) and the entry setup
\* runs to its end; a raise leaves async_setup.
UpdateDone(res) ==
    /\ upd.pc = "fetching"
    /\ upd' = Finished(upd, res, initialized)
    /\ reload_requests' = reload_requests + upd'.reloads
    /\ IF upd.caller = "setup"
       THEN /\ initialized' = (upd'.outcome = "returned")
            /\ pc_setup' = IF upd'.outcome = "returned" THEN "done" ELSE "failed"
            /\ entry' = IF upd'.reloads = 1 THEN "reloading"
                        ELSE IF upd'.outcome = "returned" THEN "loaded"
                        ELSE EntryAfterSetupRaise(res)
       ELSE /\ entry' = IF upd'.reloads = 1 THEN "reloading" ELSE entry
            /\ UNCHANGED <<initialized, pc_setup>>
    /\ setup_raised' = IF upd.caller = "setup" /\ upd'.outcome = "raised"
                       THEN res ELSE setup_raised
    /\ UNCHANGED <<amberos, apis_system, handle, with_api, fetching_entities,
                   closures, last_sub, cst, setup_calls>>
    /\ UNCHANGED cmd_vars

\* What the coordinator's update method reports to the scheduler
\* (async_coordinator_update_data_central / _cast, lines 92-98, 108-114):
\* any exception leaving the facade's call is raised again as UpdateFailed.
CoordinatorReport(outcome) ==
    IF outcome = "raised" THEN "UpdateFailed" ELSE "none"

\* -------------------------------------------------------- async_cast_update
\* Mutant of CastUpdateBegin: async_cast_update evaluates the gate before its
\* fetch, as async_update does (line 451 copied in).
CastUpdateBeginGated ==
    /\ entry = "loaded"
    /\ cst.pc # "fetching"
    /\ with_api' = GateFlags(fetching_entities, with_api, apis_system)
    /\ handle' = GateHandles(fetching_entities, with_api', handle)
    /\ cst' = Dispatched("poll", with_api'["cast"])
    /\ UNCHANGED <<entry, pc_setup, amberos, apis_system, initialized,
                   fetching_entities, closures, last_sub, upd,
                   setup_calls, setup_raised, reload_requests>>
    /\ UNCHANGED cmd_vars

\* A scheduled cast poll enters async_cast_update (lines 92-98, 471-477):
\* no gate evaluation, the stored `self._with_cast` is the argument.
CastUpdateBegin ==
    /\ entry = "loaded"
    /\ cst.pc # "fetching"
    /\ cst' = Dispatched("poll", with_api["cast"])
    /\ UNCHANGED <<entry, pc_setup, amberos, apis_system, initialized, handle,
                   with_api, fetching_entities, closures, last_sub, upd,
                   setup_calls, setup_raised, reload_requests>>
    /\ UNCHANGED cmd_vars

\* Mutant of CastUpdateDone: a failed cast fetch releases the cast handle
\* and turns the cast flag off.
CastUpdateDoneReleases(res) ==
    /\ cst.pc = "fetching"
    /\ cst' = Finished(cst, res, initialized)
    /\ reload_requests' = reload_requests + cst'.reloads
    /\ entry' = IF cst'.reloads = 1 THEN "reloading" ELSE entry
    /\ handle' = IF res = "ok" THEN handle ELSE [handle EXCEPT !["cast"] = FALSE]
    /\ with_api' = IF res = "ok" THEN with_api
                   ELSE [with_api EXCEPT !["cast"] = FALSE]
    /\ UNCHANGED <<pc_setup, amberos, apis_system, initialized,
                   fetching_entities, closures, last_sub, upd,
                   setup_calls, setup_raised>>
    /\ UNCHANGED cmd_vars

\* The blocking amberos.cast_update returned or raised (lines 478-491).
CastUpdateDone(res) ==
    /\ cst.pc = "fetching"
    /\ cst' = Finished(cst, res, initialized)
    /\ reload_requests' = reload_requests + cst'.reloads
    /\ entry' = IF cst'.reloads = 1 THEN "reloading" ELSE entry
    /\ UNCHANGED <<pc_setup, amberos, apis_system, initialized, handle,
                   with_api, fetching_entities, closures, last_sub, upd,
                   setup_calls, setup_raised>>
    /\ UNCHANGED cmd_vars

\* ------------------------------------------------- subscribe / unsubscribe
\* _fetch_device_configuration ran to its end in this facade's setup: the
\* refresh pass that follows it was dispatched.
ConfigFetched ==
    setup_calls.update_with_information
        + setup_calls.update_without_information > 0

\* The platform that builds the entities subscribing with key g could build
\* them.  Every entity constructor reads api.network.hostname and
\* api.information.serial (lines 510-513; media_player.py 74-78); the sensor
\* and binary_sensor platforms read api.storage as well (sensor.py 54,
\* binary_sensor.py 61), which is held at platform setup only if
\* _fetch_device_configuration ran to its end.
EntityBuilt(g) ==
    /\ handle["information"] /\ handle["network"]
    /\ g # "cast" => ConfigFetched

\* Mutant of Subscribe: subscribe re-evaluates the gate at once
\* (_async_setup_api_requests called after line 260).
SubscribeReevaluates(g, id) ==
    /\ entry = "loaded"
    /\ EntityBuilt(g)
    /\ <<g, id>> \in closures \/ Cardinality(closures) < MaxClosures
    /\ fetching_entities' = SubscribeTable(fetching_entities, g, id)
    /\ closures' = closures \cup {<<g, id>>}
    /\ last_sub' = IF HasSubscriber(fetching_entities, g)
                      /\ id \in fetching_entities[g]
                   THEN "resubscribed" ELSE "subscribed"
    /\ with_api' = GateFlags(fetching_entities', with_api, apis_system)
    /\ handle' = GateHandles(fetching_entities', with_api', handle)
    /\ UNCHANGED <<entry, pc_setup, amberos, apis_system, initialized,
                   upd, cst, setup_calls, setup_raised, reload_requests>>
    /\ UNCHANGED cmd_vars

\* An entity built on the loaded entry is added to hass and subscribes
\* (lines 254-260, 528-533; media_player.py 120-125).
Subscribe(g, id) ==
    /\ entry = "loaded"
    /\ EntityBuilt(g)
    /\ <<g, id>> \in closures \/ Cardinality(closures) < MaxClosures
    /\ fetching_entities' = SubscribeTable(fetching_entities, g, id)
    /\ closures' = closures \cup {<<g, id>>}
    /\ last_sub' = IF HasSubscriber(fetching_entities, g)
                      /\ id \in fetching_entities[g]
                   THEN "resubscribed" ELSE "subscribed"
    /\ UNCHANGED <<entry, pc_setup, amberos, apis_system, initialized, handle,
                   with_api, upd, cst, setup_calls, setup_raised,
                   reload_requests>>
    /\ UNCHANGED cmd_vars

\* The closure subscribe(g, id) returned is invoked (lines 262-268).
Unsubscribe(g, id) ==
    /\ entry \in {"loaded", "reloading"}
    /\ <<g, id>> \in closures
    /\ IF UnsubscribeRaises(fetching_entities, g, id)
       THEN UNCHANGED fetching_entities
       ELSE fetching_entities' = UnsubscribeTable(fetching_entities, g, id)
    /\ last_sub' = IF UnsubscribeRaises(fetching_entities, g, id)
                   THEN "KeyError" ELSE "unsubscribed"
    /\ UNCHANGED <<entry, pc_setup, amberos, apis_system, initialized, handle,
                   with_api, closures, upd, cst, setup_calls, setup_raised,
                   reload_requests>>
    /\ UNCHANGED cmd_vars

\* ------------------------------------------------------------------- reload
\* config_entries.async_reload (lines 468, 490): the entry is unloaded and
\* async_setup_entry builds a new AmberOSApi (line 74).  Calls in flight on
\* the old facade finish first.  The new entry setup builds a new cast
\* coordinator, and with it a new lock (line 100).
EntryReload ==
    /\ entry = "reloading"
    /\ upd.pc # "fetching"
    /\ cst.pc # "fetching"
    /\ cmd.pc # "calling"
    /\ cmd2.pc = "idle"
    /\ entry' = "setting_up"
    /\ reload_requests' = 0
    /\ pc_setup' = "start"
    /\ amberos' = FALSE
    /\ initialized' = FALSE
    /\ handle' = [g \in Groups |-> FALSE]
    /\ with_api' = [g \in FlagGroups |-> TRUE]
    /\ fetching_entities' = EmptyTable
    /\ closures' = {}
    /\ last_sub' = "none"
    /\ upd' = IdleCall
    /\ cst' = IdleCall
    /\ setup_calls' = NoSetupCalls
    /\ setup_raised' = "none"
    /\ state_lock' = "free"
    /\ cmd' = IdleCmd
    /\ unl' = IdleUnload
    /\ UNCHANGED <<apis_system, cmd2, svc>>

\* --------------------------------------------------------------------- spec
Next ==
    \/ SetupBegin
    \/ \E res \in Outcomes : SetupLoginDone(res)
    \/ SetupConfigDone("end", "none")
    \/ \E at \in {"information", "network"}, err \in {"login_invalid", "other"} :
            SetupConfigDone(at, err)
    \/ UpdateBegin
    \/ \E res \in Outcomes : UpdateDone(res)
    \/ CastUpdateBegin
    \/ \E res \in Outcomes : CastUpdateDone(res)
    \/ \E g \in ApiKeys, id \in Ids : Subscribe(g, id)
    \/ \E g \in ApiKeys, id \in Ids : Unsubscribe(g, id)
    \/ EntryReload

Spec == Init /\ [][Next]_vars

\* What the event loop guarantees: a started setup, a dispatched fetch and a
\* requested reload run to their end (every await of lines 235-252, 448-491
\* resumes), and both coordinators keep polling a loaded entry on their
\* update_interval (lines 100-128).
Fairness ==
    /\ WF_vars(SetupBegin)
    /\ WF_vars(\E res \in Outcomes : SetupLoginDone(res))
    /\ WF_vars(\/ SetupConfigDone("end", "none")
               \/ \E at \in {"information", "network"},
                     err \in {"login_invalid", "other"} :
                        SetupConfigDone(at, err))
    /\ WF_vars(UpdateBegin)
    /\ WF_vars(\E res \in Outcomes : UpdateDone(res))
    /\ WF_vars(CastUpdateBegin)
    /\ WF_vars(\E res \in Outcomes : CastUpdateDone(res))
    /\ WF_vars(EntryReload)

\* The facade with its polls and subscribers under the event loop's fairness.
SpecFair == Spec /\ Fairness

\* ------------------------------------------------------------ user commands
\* The user commands: a media_player entity command (media_player.py
\* 173-299, all of one shape), the select entity's option change (select.py
\* 92-94) and the cast_play, reboot and shutdown services (lines 189-194,
\* 393-437).
CmdKinds == {"media_player", "select_option", "cast_play", "reboot", "shutdown"}

\* The commands that touch the cast handle.
CastCmdKinds == {"media_player", "select_option", "cast_play"}

\* The group handle a command dereferences.
CmdHandle(kind) == IF kind \in CastCmdKinds THEN "cast" ELSE "system"

\* The commands whose body runs under `async with self.state_lock`.
TakesLock(kind) == kind = "media_player"

\* What the device call of a command can do: return, or raise one of the
\* library's exceptions; "other" is any exception no handler names.
CmdResults(kind) ==
    IF kind = "cast_play"
    THEN Outcomes \cup {"file_index_not_enable", "file_index_not_found"}
    ELSE Outcomes

\* Mutant of Catches: async_cast_play without its
\* `except AmberOSFileIndexNotFound` clause (lines 432-437 dropped) and
\* async_shutdown without its try (lines 406, 408-413 dropped).
CatchesFewer(kind) ==
    IF kind = "reboot" THEN {"login_invalid"}
    ELSE IF kind = "cast_play"
         THEN {"login_invalid", "file_index_not_enable"}
         ELSE {}

\* The exceptions the code of a command catches (lines 397, 408, 421-437;
\* the media_player and select commands have no try).
Catches(kind) ==
    IF kind \in {"reboot", "shutdown"} THEN {"login_invalid"}
    ELSE IF kind = "cast_play"
         THEN {"login_invalid", "file_index_not_enable", "file_index_not_found"}
         ELSE {}

\* What becomes of the refresh request of a command.  After its device call
\* a media-player command awaits the entity's async_request_refresh
\* (media_player.py 179), whose body calls the coordinator's
\* async_request_refresh, a coroutine function, and drops the coroutine it
\* gets without awaiting it (media_player.py 169-171): no request reaches
\* the coordinator.  The other commands make no such call.
RefreshRequest(kind, err) ==
    IF kind = "media_player" /\ err = "ok" THEN "not_awaited" ELSE "none"

\* The record of a finished command: err is what its device call did, or
\* "AttributeError" when the handle it dereferences is None.
CmdFinished(kind, err) ==
    [pc |-> "done", kind |-> kind, err |-> err,
     outcome |-> IF err = "ok" \/ err \in Catches(kind)
                 THEN "returned" ELSE "raised",
     refresh |-> RefreshRequest(kind, err)]

\* The entity or service a command goes through exists: the media player
\* subscribed under cast when it was added (media_player.py 120-125), the
\* select entity was built, the services look the facade up in hass.data
\* (lines 154-162).
CmdAvailable(kind) ==
    /\ entry = "loaded"
    /\ kind = "media_player" => HasSubscriber(fetching_entities, "cast")
    /\ kind = "select_option" => EntityBuilt("cast")

\* A command starts: under the lock if it takes it, it dereferences its
\* handle (AttributeError on None, which leaves the `async with`) and
\* dispatches the device call.
CommandBegin(kind) ==
    /\ CmdAvailable(kind)
    /\ cmd.pc # "calling"
    /\ TakesLock(kind) => state_lock = "free" /\ cmd2.pc # "waiting"
    /\ IF handle[CmdHandle(kind)]
       THEN /\ cmd' = [pc |-> "calling", kind |-> kind, err |-> "none",
                       outcome |-> "none", refresh |-> "none"]
            /\ state_lock' = IF TakesLock(kind) THEN "held" ELSE state_lock
       ELSE /\ cmd' = CmdFinished(kind, "AttributeError")
            /\ state_lock' = state_lock
    /\ UNCHANGED <<entry, pc_setup, amberos, apis_system, initialized, handle,
                   with_api, fetching_entities, closures, last_sub, upd, cst,
                   setup_calls, setup_raised, reload_requests, unl, cmd2,
                   svc>>

\* Mutant of CommandDone: a command whose device call raised leaves the
\* lock held.
CommandDoneKeepsLock(res) ==
    /\ cmd.pc = "calling"
    /\ res \in CmdResults(cmd.kind)
    /\ cmd' = CmdFinished(cmd.kind, res)
    /\ state_lock' = IF TakesLock(cmd.kind) /\ res = "ok"
                     THEN "free" ELSE state_lock
    /\ UNCHANGED <<entry, pc_setup, amberos, apis_system, initialized, handle,
                   with_api, fetching_entities, closures, last_sub, upd, cst,
                   setup_calls, setup_raised, reload_requests, unl, cmd2,
                   svc>>

\* The device call of the command in flight returned or raised; leaving the
\* `async with` releases the lock.
CommandDone(res) ==
    /\ cmd.pc = "calling"
    /\ res \in CmdResults(cmd.kind)
    /\ cmd' = CmdFinished(cmd.kind, res)
    /\ state_lock' = IF TakesLock(cmd.kind) THEN "free" ELSE state_lock
    /\ UNCHANGED <<entry, pc_setup, amberos, apis_system, initialized, handle,
                   with_api, fetching_entities, closures, last_sub, upd, cst,
                   setup_calls, setup_raised, reload_requests, unl, cmd2,
                   svc>>

\* ---------------------------------------------------- second media command
\* A second media-player command is called while the first may hold the
\* lock: `async with self.state_lock` takes the free lock at once, unless a
\* handle that is None raises AttributeError inside the block, or waits.
Command2Begin ==
    /\ CmdAvailable("media_player")
    /\ cmd2.pc = "idle"
    /\ IF state_lock = "held"
       THEN /\ cmd2' = [pc |-> "waiting", waited |-> TRUE]
            /\ state_lock' = state_lock
       ELSE IF handle["cast"]
            THEN /\ cmd2' = [pc |-> "calling", waited |-> FALSE]
                 /\ state_lock' = "held"
            ELSE /\ cmd2' = IdleCmd2
                 /\ state_lock' = state_lock
    /\ UNCHANGED <<entry, pc_setup, amberos, apis_system, initialized, handle,
                   with_api, fetching_entities, closures, last_sub, upd, cst,
                   setup_calls, setup_raised, reload_requests, cmd, unl, svc>>

\* The lock was released and wakes the waiting command, the first in its
\* queue of waiters.
Command2Acquire ==
    /\ cmd2.pc = "waiting"
    /\ state_lock = "free"
    /\ IF handle["cast"]
       THEN /\ cmd2' = [cmd2 EXCEPT !.pc = "calling"]
            /\ state_lock' = "held"
       ELSE /\ cmd2' = IdleCmd2
            /\ state_lock' = state_lock
    /\ UNCHANGED <<entry, pc_setup, amberos, apis_system, initialized, handle,
                   with_api, fetching_entities, closures, last_sub, upd, cst,
                   setup_calls, setup_raised, reload_requests, cmd, unl, svc>>

\* The device call of the second command returned or raised; leaving the
\* `async with` releases the lock.
Command2Done(res) ==
    /\ cmd2.pc = "calling"
    /\ res \in Outcomes
    /\ cmd2' = IdleCmd2
    /\ state_lock' = "free"
    /\ UNCHANGED <<entry, pc_setup, amberos, apis_system, initialized, handle,
                   with_api, fetching_entities, closures, last_sub, upd, cst,
                   setup_calls, setup_raised, reload_requests, cmd, unl, svc>>

\* ------------------------------------------------------------------- unload
\* AmberOSApi.async_unload (lines 439-446): only a login-invalid failure of
\* logout is caught.
UnloadOutcome(res) ==
    IF res \in {"ok", "login_invalid"} THEN "returned" ELSE "raised"

\* async_unload_entry up to the dispatch of logout (lines 133-137), entered
\* with no poll and no command in flight.  Unloading the platforms removes
\* the entities, whose removal runs their unsubscribe closures
\* (lines 530-532).
UnloadBegin(unload_ok) ==
    /\ entry = "loaded"
    /\ unl.pc \in {"idle", "refused"}
    /\ upd.pc # "fetching" /\ cst.pc # "fetching" /\ cmd.pc # "calling"
    /\ cmd2.pc = "idle"
    /\ IF unload_ok
       THEN /\ fetching_entities' = EmptyTable
            /\ last_sub' = IF DOMAIN fetching_entities = {}
                           THEN last_sub ELSE "unsubscribed"
            /\ unl' = [pc |-> "logout", logouts |-> unl.logouts + 1]
            /\ entry' = "unloading"
       ELSE /\ unl' = [unl EXCEPT !.pc = "refused"]
            /\ UNCHANGED <<fetching_entities, last_sub, entry>>
    /\ UNCHANGED <<pc_setup, amberos, apis_system, initialized, handle,
                   with_api, closures, upd, cst, setup_calls, setup_raised,
                   reload_requests, state_lock, cmd, cmd2, svc>>

\* logout returned or raised (lines 441-446, 138-140).
UnloadDone(res) ==
    /\ unl.pc = "logout"
    /\ unl' = [unl EXCEPT !.pc = UnloadOutcome(res)]
    /\ entry' = IF UnloadOutcome(res) = "returned"
                THEN "unloaded" ELSE "unload_error"
    /\ UNCHANGED <<pc_setup, amberos, apis_system, initialized, handle,
                   with_api, fetching_entities, closures, last_sub, upd, cst,
                   setup_calls, setup_raised, reload_requests, state_lock,
                   cmd, cmd2, svc>>

\* --------------------------------------------- spec with commands and unload
\* The subscribers of the specification with commands: one media player
\* under cast, one sensor under storage.
CmdApiKeys == {"storage", "cast"}

CmdIds == {"e1"}

NextCmd ==
    \/ SetupBegin
    \/ \E res \in Outcomes : SetupLoginDone(res)
    \/ SetupConfigDone("end", "none")
    \/ \E at \in {"information", "network"}, err \in {"login_invalid", "other"} :
            SetupConfigDone(at, err)
    \/ UpdateBegin
    \/ \E res \in Outcomes : UpdateDone(res)
    \/ CastUpdateBegin
    \/ \E res \in Outcomes : CastUpdateDone(res)
    \/ \E g \in CmdApiKeys, id \in CmdIds : Subscribe(g, id)
    \/ \E g \in CmdApiKeys, id \in CmdIds : Unsubscribe(g, id)
    \/ EntryReload
    \/ \E kind \in CmdKinds : CommandBegin(kind)
    \/ \E res \in CmdResults("cast_play") : CommandDone(res)
    \/ \E ok \in BOOLEAN : UnloadBegin(ok)
    \/ \E res \in Outcomes : UnloadDone(res)

SpecCmd == Init /\ [][NextCmd]_vars

\* ----------------------------------------- spec with two media commands
NextLock ==
    \/ SetupBegin
    \/ \E res \in Outcomes : SetupLoginDone(res)
    \/ SetupConfigDone("end", "none")
    \/ \E at \in {"information", "network"}, err \in {"login_invalid", "other"} :
            SetupConfigDone(at, err)
    \/ UpdateBegin
    \/ \E res \in Outcomes : UpdateDone(res)
    \/ CastUpdateBegin
    \/ \E res \in Outcomes : CastUpdateDone(res)
    \/ \E g \in CmdApiKeys, id \in CmdIds : Subscribe(g, id)
    \/ \E g \in CmdApiKeys, id \in CmdIds : Unsubscribe(g, id)
    \/ EntryReload
    \/ CommandBegin("media_player")
    \/ \E res \in Outcomes : CommandDone(res)
    \/ Command2Begin
    \/ Command2Acquire
    \/ \E res \in Outcomes : Command2Done(res)

\* The executor job of a command's device call returns or raises, and the
\* event loop runs the waiter the released lock has woken.
FairnessLock ==
    /\ WF_vars(\E res \in Outcomes : CommandDone(res))
    /\ WF_vars(Command2Acquire)
    /\ WF_vars(\E res \in Outcomes : Command2Done(res))

SpecLock == Init /\ [][NextLock]_vars /\ FairnessLock

\* ---------------------------------------------------------- service handler
\* The serials under which entries register; a call can name another one
\* or none ("").
Serials == {"s1", "s2"}

SerialArgs == Serials \cup {"", "s9"}

Services == {"reboot", "shutdown", "cast_play"}

\* What call.data's entity_id can be: absent, or a list whose first element
\* holds the hostname of one device, or of none.
EntityIds == Serials \cup {"absent", "other"}

\* Mutant of ServiceTarget: without a serial the first device is taken
\* whenever there is one (`elif len(amberos_devices) >= 1`).
ServiceTargetFirst(devices, serial) ==
    IF serial # ""
    THEN IF serial \in devices THEN serial ELSE "none"
    ELSE IF Cardinality(devices) >= 1
         THEN CHOOSE d \in devices : TRUE
         ELSE "unresolved"

\* The device the handler resolves (lines 157-162): the one registered under
\* the serial, None if there is none; without a serial the only device;
\* otherwise the else branch of line 163.
ServiceTarget(devices, serial) ==
    IF serial # ""
    THEN IF serial \in devices THEN serial ELSE "none"
    ELSE IF Cardinality(devices) = 1
         THEN CHOOSE d \in devices : TRUE
         ELSE "unresolved"

\* The command the handler sends and the device whose SYSTEM_LOADED it
\* clears (lines 163-194).  In the else branch cast_play goes to the
\* device whose hostname entity_id[0] holds, with "/share/" in front of the
\* filename, and returns; entity_id[0] raises TypeError when entity_id is
\* absent and a device is looked at.
ServiceHandler(devices, service, serial, filepath, entity_id) ==
    LET target == ServiceTarget(devices, serial)
        nothing == [sent |-> "none", unloaded |-> "none", pc |-> "returned"]
    IN  IF target = "unresolved"
        THEN IF service = "cast_play" /\ devices # {}
             THEN IF entity_id = "absent"
                  THEN [nothing EXCEPT !.pc = "raised"]
                  ELSE IF entity_id \in devices
                       THEN [sent |-> <<entity_id, "cast_play",
                                        IF filepath THEN "/share/f"
                                        ELSE "/share/None">>,
                             unloaded |-> "none", pc |-> "awaiting"]
                       ELSE nothing
             ELSE nothing
        ELSE IF target = "none"
             THEN nothing
             ELSE IF service = "cast_play" /\ ~filepath
                  THEN nothing
                  ELSE [sent |-> <<target, service,
                                   IF service = "cast_play" THEN "f" ELSE "">>,
                        unloaded |-> target, pc |-> "awaiting"]

\* async_setup_entry registers the entry's device (lines 82-87).
RegisterDevice(s) ==
    /\ svc' = [svc EXCEPT !.devices = @ \cup {s}, !.loaded = @ \cup {s}]
    /\ svc' # svc
    /\ UNCHANGED <<entry, pc_setup, amberos, apis_system, initialized, handle,
                   with_api, fetching_entities, closures, last_sub, upd, cst,
                   setup_calls, setup_raised, reload_requests, state_lock,
                   cmd, unl, cmd2>>

\* async_unload_entry pops the entry's device (line 138).
UnregisterDevice(s) ==
    /\ s \in svc.devices
    /\ svc' = [svc EXCEPT !.devices = @ \ {s}, !.loaded = @ \ {s}]
    /\ UNCHANGED <<entry, pc_setup, amberos, apis_system, initialized, handle,
                   with_api, fetching_entities, closures, last_sub, upd, cst,
                   setup_calls, setup_raised, reload_requests, state_lock,
                   cmd, unl, cmd2>>

\* service_handler up to its return or to the await of the command it sends
\* (lines 150-194).
ServiceCall(service, serial, filepath, entity_id) ==
    /\ svc.pc = "idle"
    /\ LET r == ServiceHandler(svc.devices, service, serial, filepath,
                               entity_id)
       IN  svc' = [devices |-> svc.devices,
                   loaded |-> svc.loaded \ {r.unloaded},
                   pc |-> r.pc, service |-> service, serial |-> serial,
                   sent |-> r.sent]
    /\ UNCHANGED <<entry, pc_setup, amberos, apis_system, initialized, handle,
                   with_api, fetching_entities, closures, last_sub, upd, cst,
                   setup_calls, setup_raised, reload_requests, state_lock,
                   cmd, unl, cmd2>>

\* The command the handler awaited is over, or the handler had returned:
\* its frame is gone.
ServiceReturn ==
    /\ svc.pc # "idle"
    /\ svc' = [svc EXCEPT !.pc = "idle", !.service = "none", !.serial = "",
                          !.sent = "none"]
    /\ UNCHANGED <<entry, pc_setup, amberos, apis_system, initialized, handle,
                   with_api, fetching_entities, closures, last_sub, upd, cst,
                   setup_calls, setup_raised, reload_requests, state_lock,
                   cmd, unl, cmd2>>

NextService ==
    \/ \E s \in Serials : RegisterDevice(s)
    \/ \E s \in Serials : UnregisterDevice(s)
    \/ \E service \in Services, serial \in SerialArgs, filepath \in BOOLEAN,
          entity_id \in EntityIds :
            ServiceCall(service, serial, filepath, entity_id)
    \/ ServiceReturn

SpecService == Init /\ [][NextService]_vars

\* ================================================================= entities
\* The entity classes that subscribe under the keys of ApiKeys.
EntityClasses ==
    {"AmberOSInfoSensor", "AmberOSStorageSensor", "AmberOSCastMediaPlayer"}

\* The key an entity subscribes under in async_added_to_hass (lines 528-533:
\* its description's api_key; media_player.py 120-125: AmberOSCast.API_KEY).
EntityKey(e) ==
    CASE e = "AmberOSInfoSensor" -> "information"
      [] e = "AmberOSStorageSensor" -> "storage"
      [] e = "AmberOSCastMediaPlayer" -> "cast"

\* The handle an entity's state read dereferences: native_value reads
\* api.information (sensor.py 186-193) or api.storage (sensor.py 145-170),
\* state and the media properties read api.cast (media_player.py 127-167).
EntityReads(e) == EntityKey(e)

\* last_update_success of a coordinator: True until a refresh has been
\* reported as UpdateFailed.  While a fetch is in flight the flag keeps the
\* value of the report before it, which the call record no longer holds;
\* the flag is taken as off then.
CoordinatorAvailable(call) ==
    \/ call.pc = "idle"
    \/ call.pc = "done" /\ CoordinatorReport(call.outcome) # "UpdateFailed"

\* The availability check in front of an entity's state read.  The storage
\* entities test the handle (lines 582-585); the information sensor and the
\* media player define no `available` and inherit CoordinatorEntity's, the
\* last_update_success of their coordinator (central and cast).
EntityAvailable(e) ==
    CASE e = "AmberOSStorageSensor" -> handle["storage"]
      [] e = "AmberOSInfoSensor" -> CoordinatorAvailable(upd)
      [] e = "AmberOSCastMediaPlayer" -> CoordinatorAvailable(cst)

\* An entity of the class is added to hass: it has subscribed and not been
\* removed.
EntityLive(e) ==
    /\ entry \in {"loaded", "reloading"}
    /\ HasSubscriber(fetching_entities, EntityKey(e))

\* Writing the state of a live entity (when it is added, and after every
\* refresh of its coordinator) evaluates `available` and, if that holds,
\* the state property: AttributeError on a handle that is None.
StateReadRaises(e) ==
    /\ EntityLive(e)
    /\ EntityAvailable(e)
    /\ ~handle[EntityReads(e)]

\* =================================================================== claims
\* The groups whose flag _async_setup_api_requests derives from the
\* subscription table and whose handle it resets.
SubscriptionGated == ResetGroups \ {"system"}

\* A step in which a scheduled update() pass evaluates the gate and
\* dispatches its fetch.  The rest of async_update assigns no flag, no handle
\* and no table entry.
PollGateStep == upd.pc # "fetching" /\ upd'.pc = "fetching" /\ upd'.caller = "poll"

\* A step in which any update() pass (from setup or from a poll) evaluates
\* the gate and dispatches its fetch.
GateStep == upd.pc # "fetching" /\ upd'.pc = "fetching"

\* C1 (as stated), on a facade whose setup has succeeded: a gate evaluation on
\* a non-empty table marks each of security, storage, backup, system, upgrade,
\* utilisation and cast active if and only if the group has at least one
\* subscriber.
C1_Original ==
    [][(GateStep /\ initialized /\ DOMAIN fetching_entities # {}) =>
        \A g \in ResetGroups :
            with_api'[g] = HasSubscriber(fetching_entities, g)]_vars

\* C1 (amended): a gate evaluation on a non-empty table marks each of
\* security, storage, backup, upgrade, utilisation and cast active if and
\* only if the group has at least one subscriber; system is active if and
\* only if the device's API list offers the system API.
C1_GateBySubscribers ==
    [][(GateStep /\ DOMAIN fetching_entities # {}) =>
        /\ \A g \in SubscriptionGated :
              with_api'[g] = HasSubscriber(fetching_entities, g)
        /\ with_api'["system"] = apis_system]_vars

\* C1 witness: on an initialized facade a pass has evaluated the gate on a
\* table that holds a storage subscriber only: storage on, cast and security
\* off, system on by the device's API list.
C1_Witness ==
    /\ initialized
    /\ upd.pc = "fetching" /\ upd.caller = "poll"
    /\ DOMAIN fetching_entities = {"storage"}
    /\ with_api["storage"] /\ ~with_api["cast"] /\ ~with_api["security"]
    /\ with_api["system"]

\* C2 (as stated), on a facade whose setup has succeeded: a gate evaluation on
\* an empty table leaves every group active, at first setup and after the
\* table has become empty again.
C2_EmptyTableAllActive ==
    [][(GateStep /\ initialized /\ DOMAIN fetching_entities = {}) =>
        \A g \in FlagGroups : with_api'[g]]_vars

\* The active set the gate evaluation is said to yield for table t.
Active(t, g) ==
    DOMAIN t = {} \/ g \in {"information", "network"} \/ HasSubscriber(t, g)

\* C3 (as stated), on a facade whose setup has succeeded: after the gate
\* evaluation of an update() pass the groups with a non-null handle are
\* exactly the active set of the current table.
C3_Original ==
    [][(PollGateStep /\ initialized) =>
        \A g \in Groups : handle'[g] <=> Active(fetching_entities, g)]_vars

\* C3 (amended): an update() pass never turns a null handle non-null; on an
\* empty table it changes no handle; on a non-empty table every group among
\* security, storage, backup, upgrade, utilisation and cast without a
\* subscriber has a null handle afterwards, and so has system when the
\* device's API list lacks it.
C3_HandlesWithinActive ==
    [][PollGateStep =>
        /\ \A g \in Groups : handle'[g] => handle[g]
        /\ DOMAIN fetching_entities = {} => handle' = handle
        /\ DOMAIN fetching_entities # {} =>
              /\ \A g \in SubscriptionGated :
                    ~HasSubscriber(fetching_entities, g) => ~handle'[g]
              /\ ~apis_system => ~handle'["system"]
              /\ \A g \in {"information", "network"} : handle'[g] = handle[g]]_vars

\* C3 witness: on an initialized facade a pass has evaluated the gate while
\* storage has a subscriber and its handle is null, cast has none and a null
\* handle, information and network are held.
C3_Witness ==
    /\ initialized
    /\ upd.pc = "fetching" /\ upd.caller = "poll"
    /\ HasSubscriber(fetching_entities, "storage") /\ ~handle["storage"]
    /\ ~HasSubscriber(fetching_entities, "cast") /\ ~handle["cast"]
    /\ handle["information"] /\ handle["network"]

\* C4 (as stated): on an initialized facade, a group that has a subscriber
\* when an update() pass evaluates the gate has a non-null handle after it,
\* also when the handle had been released before.
C4_Original ==
    [][(PollGateStep /\ initialized) =>
        \A g \in SubscriptionGated :
            HasSubscriber(fetching_entities, g) => handle'[g]]_vars

\* C4 (amended): once the entry is loaded a null handle stays null whatever
\* subscribers the group gains: no subscribe, unsubscribe, update() or
\* cast_update() step turns a null handle non-null; only
\* _fetch_device_configuration, run by setup() after a reload, acquires
\* handles.
C4_ReleasedStaysNull ==
    [][(entry # "setting_up" /\ entry' # "setting_up") =>
        \A g \in Groups : ~handle[g] => ~handle'[g]]_vars

\* C4 witness: on an initialized facade an update() pass has completed while
\* storage has a subscriber and a null handle.
C4_Witness ==
    /\ initialized
    /\ upd.pc = "done" /\ upd.err = "ok"
    /\ HasSubscriber(fetching_entities, "storage") /\ ~handle["storage"]

\* C5 (as stated), on a facade whose setup has succeeded: every update() pass
\* asks for the information fetch.
C5_Original == [][(GateStep /\ initialized) => upd'.arg]_vars

\* C5 (amended): update() asks for the information fetch exactly when the
\* _with_information flag is on after gate evaluation: with a non-empty table,
\* if and only if information has a subscriber; with an empty table, as the
\* flag was left.  No update() pass releases the information or the network
\* handle.
C5_InformationGated ==
    [][GateStep =>
        /\ upd'.arg = IF DOMAIN fetching_entities = {}
                      THEN with_api["information"]
                      ELSE HasSubscriber(fetching_entities, "information")
        /\ \A g \in {"information", "network"} : handle[g] => handle'[g]]_vars

\* C5 witness: on an initialized facade a pass has been dispatched without the
\* information fetch, the table holding subscribers of other groups only.
C5_Witness ==
    /\ initialized
    /\ upd.pc = "fetching" /\ upd.caller = "poll" /\ ~upd.arg
    /\ DOMAIN fetching_entities # {}
    /\ ~HasSubscriber(fetching_entities, "information")
    /\ handle["information"] /\ handle["network"]

\* C6: the subscription table maps no group to an empty subscriber set.
C6_NoEmptyEntry == \A g \in DOMAIN fetching_entities : fetching_entities[g] # {}

\* C6 witness: the last subscriber of storage has been removed by its
\* closure, and storage is no key of the table.
C6_Witness ==
    /\ last_sub = "unsubscribed"
    /\ \E id \in Ids : <<"storage", id>> \in closures
    /\ "storage" \notin DOMAIN fetching_entities

\* C7 (as stated): no invocation of an unsubscribe closure raises.  A closure
\* raises only when its id is not in the table, that is after an earlier
\* invocation of the closure of the same (group, id) removed it.
C7_UnsubscribeNeverRaises == last_sub # "KeyError"

\* C8: subscribe(group, id) with id already registered under group leaves the
\* subscription table as it was.
C8_SubscribeIdempotent ==
    [][(last_sub' = "resubscribed" /\ last_sub # "resubscribed") =>
        fetching_entities' = fetching_entities]_vars

\* C8 witness: subscribe was called with an id already registered, in a
\* group that holds a second subscriber.
C8_Witness ==
    /\ last_sub = "resubscribed"
    /\ \E g \in DOMAIN fetching_entities : fetching_entities[g] = Ids

\* Information fetches setup() has asked for: its direct information.update()
\* and its refresh pass with with_information on.
SetupInformationFetches ==
    setup_calls.information_update + setup_calls.update_with_information

\* C9 (as stated, for the information group): after a successful setup()
\* initialized is true and information has been fetched exactly once.
C9_Original ==
    pc_setup = "done" => initialized /\ SetupInformationFetches = 1

\* C9 (amended): after a successful setup() initialized is true and setup has
\* made one information.update() call, one network.update() call and one
\* refresh pass with with_information on: information is fetched twice.
C9_SetupFetches ==
    pc_setup = "done" =>
        /\ initialized
        /\ setup_calls = [information_update |-> 1, network_update |-> 1,
                          update_with_information |-> 1,
                          update_without_information |-> 0]
        /\ SetupInformationFetches = 2

\* C9 witness: setup() has succeeded and the entry is loaded.
C9_Witness == pc_setup = "done" /\ initialized /\ entry = "loaded"

\* C10: with initialized true, a login-invalid failure of the fetch inside
\* update() or cast_update() issues exactly one reload request and the call
\* returns without raising.
C10_ReloadOnLoginInvalid ==
    [][/\ (upd.pc = "fetching" /\ upd'.pc = "done"
             /\ upd'.err = "login_invalid" /\ initialized) =>
                /\ reload_requests' = reload_requests + 1
                /\ upd'.outcome = "returned"
                /\ entry' = "reloading"
       /\ (cst.pc = "fetching" /\ cst'.pc = "done"
             /\ cst'.err = "login_invalid" /\ initialized) =>
                /\ reload_requests' = reload_requests + 1
                /\ cst'.outcome = "returned"
                /\ entry' = "reloading"]_vars

\* C10 witness: on an initialized facade both an update() and a cast_update()
\* call have met a login-invalid failure and returned.
C10_Witness ==
    /\ upd.pc = "done" /\ upd.err = "login_invalid" /\ upd.init_seen
    /\ upd.outcome = "returned"
    /\ cst.pc = "done" /\ cst.err = "login_invalid" /\ cst.init_seen
    /\ cst.outcome = "returned"
    /\ reload_requests = 2

\* C11: with initialized false, a login-invalid failure during setup() (at
\* login, in _fetch_device_configuration or in the initial refresh pass)
\* raises out of setup(), issues no reload request and leaves initialized
\* false.
C11_SetupLoginInvalidRaises ==
    [][/\ (pc_setup # "failed" /\ pc_setup' = "failed"
             /\ setup_raised' = "login_invalid") =>
                /\ reload_requests' = reload_requests
                /\ entry' # "reloading"
                /\ ~initialized'
       /\ (upd.pc = "fetching" /\ upd.caller = "setup" /\ upd'.pc = "done"
             /\ upd'.err = "login_invalid") =>
                /\ upd'.outcome = "raised"
                /\ pc_setup' = "failed"
                /\ setup_raised' = "login_invalid"
                /\ reload_requests' = reload_requests
                /\ ~initialized']_vars

\* C11 witness: the initial refresh pass of setup() met a login-invalid
\* failure and setup() raised it; no reload was requested.
C11_Witness ==
    /\ pc_setup = "failed" /\ setup_raised = "login_invalid"
    /\ upd.pc = "done" /\ upd.err = "login_invalid" /\ upd.outcome = "raised"
    /\ ~initialized
    /\ reload_requests = 0

\* C12 (as stated): when the facade's setup() fails with login-invalid the
\* entry setup does not report success: the entry is not loaded, no
\* coordinators or platforms exist on the uninitialized facade.
C12_SetupFailureAborts ==
    (pc_setup = "failed" /\ setup_raised = "login_invalid") => entry # "loaded"

\* C13: an exception other than login-invalid raised during a scheduled
\* central or cast poll leaves the facade's call, is reported to the
\* scheduler as UpdateFailed, and no reload is requested.
C13_OtherFailureReported ==
    [][/\ (upd.pc = "fetching" /\ upd.caller = "poll" /\ upd'.pc = "done"
             /\ upd'.err = "other") =>
                /\ CoordinatorReport(upd'.outcome) = "UpdateFailed"
                /\ reload_requests' = reload_requests
                /\ entry' = entry
       /\ (cst.pc = "fetching" /\ cst'.pc = "done" /\ cst'.err = "other") =>
                /\ CoordinatorReport(cst'.outcome) = "UpdateFailed"
                /\ reload_requests' = reload_requests
                /\ entry' = entry]_vars

\* C13 witness: on an initialized facade a central poll and a cast poll have
\* both failed with an exception other than login-invalid; the entry is
\* still loaded and no reload was requested.
C13_Witness ==
    /\ initialized /\ entry = "loaded"
    /\ upd.pc = "done" /\ upd.err = "other" /\ upd.outcome = "raised"
    /\ cst.pc = "done" /\ cst.err = "other" /\ cst.outcome = "raised"
    /\ reload_requests = 0

\* A step in which a cast_update() pass dispatches its fetch.
CastFetchStep == cst.pc # "fetching" /\ cst'.pc = "fetching"

\* C17 (as stated), on a facade whose setup has succeeded and a non-empty
\* table: every update() and every cast_update() evaluates the gate before
\* its fetch, so the information fetch is asked for if and only if
\* information has a subscriber at that time, and the cast fetch if and only
\* if cast has a subscriber at that time.
C17_Original ==
    [][/\ (GateStep /\ initialized /\ DOMAIN fetching_entities # {}) =>
              upd'.arg = HasSubscriber(fetching_entities, "information")
       /\ (CastFetchStep /\ initialized /\ DOMAIN fetching_entities # {}) =>
              cst'.arg = HasSubscriber(fetching_entities, "cast")]_vars

\* C17 (amended): update() evaluates the gate before its fetch: on a
\* non-empty table the information fetch is asked for if and only if
\* information has a subscriber at that time.  cast_update() evaluates no
\* gate: it changes no flag and no handle, and its fetch is gated by the cast
\* flag as the latest gate evaluation of setup() or update() left it.
C17_GateBeforeUpdateFetch ==
    [][/\ (GateStep /\ DOMAIN fetching_entities # {}) =>
              /\ upd'.arg = HasSubscriber(fetching_entities, "information")
              /\ with_api'["cast"] = HasSubscriber(fetching_entities, "cast")
       /\ CastFetchStep =>
              /\ with_api' = with_api
              /\ handle' = handle
              /\ cst'.arg = with_api["cast"]]_vars

\* C17 witness: on an initialized facade a cast_update() pass has been
\* dispatched without the cast fetch while cast has a subscriber: the flag is
\* the one an update() pass left before the subscriber arrived.
C17_Witness ==
    /\ initialized
    /\ cst.pc = "fetching" /\ ~cst.arg
    /\ HasSubscriber(fetching_entities, "cast")
    /\ ~with_api["cast"]

\* C14 (as stated), on a facade whose setup has succeeded: a media-player
\* command and a cast poll never interleave: never is a command's device
\* call on the cast handle in flight while a cast_update() fetch of the cast
\* group is in flight.
C14_CommandPollExclusive ==
    ~(/\ initialized
      /\ cmd.pc = "calling" /\ cmd.kind = "media_player"
      /\ cst.pc = "fetching" /\ cst.arg)

\* C15 (as stated), on a facade whose setup has succeeded: a command whose
\* device call on the cast handle is in flight holds the cast coordinator's
\* lock.
C15_CommandsHoldLock ==
    (initialized /\ cmd.pc = "calling" /\ cmd.kind \in CastCmdKinds) =>
        state_lock = "held"

\* The failures the specification says reboot(), shutdown() and castPlay()
\* survive.
SurvivedFailure(kind, err) ==
    \/ kind \in {"reboot", "shutdown", "cast_play"} /\ err = "login_invalid"
    \/ kind = "cast_play"
          /\ err \in {"file_index_not_enable", "file_index_not_found"}

\* C18: reboot(), shutdown() and castPlay() return normally when the device
\* call fails with login-invalid, and castPlay() also when it fails with
\* file-index-not-enabled or file-not-found; the failure changes nothing in
\* the facade and requests no reload.
C18_FacadeCommandsSurvive ==
    [][(cmd.pc = "calling" /\ cmd'.pc = "done"
          /\ SurvivedFailure(cmd'.kind, cmd'.err)) =>
            /\ cmd'.outcome = "returned"
            /\ reload_requests' = reload_requests
            /\ entry' = entry
            /\ handle' = handle
            /\ initialized' = initialized]_vars

\* C18 witness: on an initialized facade the cast_play service met
\* file-not-found and returned.
C18_Witness ==
    /\ initialized /\ entry = "loaded"
    /\ cmd.pc = "done" /\ cmd.kind = "cast_play"
    /\ cmd.err = "file_index_not_found" /\ cmd.outcome = "returned"

\* C19 (as stated), on a facade whose setup has succeeded: no user command
\* lets a failure escape to its caller, whatever its device call does and
\* also when the handle it targets is null.
C19_NoCommandFailureEscapes ==
    (initialized /\ cmd.pc = "done") => cmd.outcome = "returned"

\* C20 (as stated), on a facade whose setup has succeeded: once the entry is
\* being unloaded or is unloaded no central and no cast poll is dispatched,
\* and an unload that got past the platforms has called logout once and
\* returns whatever logout did.
C20_UnloadBestEffort ==
    [][/\ entry \in {"unloading", "unloaded"} =>
              ~(GateStep \/ CastFetchStep)
       /\ (initialized /\ unl.pc = "logout" /\ unl'.pc # "logout") =>
              /\ unl'.pc = "returned"
              /\ unl'.logouts = 1
              /\ entry' = "unloaded"]_vars

\* The first update() of the scenario: storage has the only subscribers of
\* the table and every handle is still the one setup() acquired.
ScenarioFirstUpdate ==
    /\ PollGateStep /\ initialized
    /\ DOMAIN fetching_entities = {"storage"}
    /\ \A g \in Groups : handle[g]

\* The second update() of the scenario: the table is empty again, the flags
\* are those an evaluation with a storage subscriber and no security
\* subscriber left, and the storage handle is held.
ScenarioSecondUpdate ==
    /\ PollGateStep /\ initialized
    /\ DOMAIN fetching_entities = {}
    /\ with_api["storage"] /\ ~with_api["security"]
    /\ handle["storage"]

\* C21 (as stated): after setup() on an empty table, subscribe(storage, s)
\* and update() leave the storage, information and network handles non-null
\* and the security, backup, upgrade, utilisation and cast handles null (the
\* system handle is left aside here); after the unsubscribe of s and a
\* further update() the storage handle is null again.
C21_Original ==
    [][/\ ScenarioFirstUpdate =>
              /\ handle'["storage"] /\ handle'["information"]
              /\ handle'["network"]
              /\ \A g \in SubscriptionGated \ {"storage"} : ~handle'[g]
       /\ ScenarioSecondUpdate => ~handle'["storage"]]_vars

\* C21 (amended): after setup() on an empty table, subscribe(storage, s) and
\* update() leave the storage, information and network handles non-null, the
\* security, backup, upgrade, utilisation and cast handles null, and the
\* system handle null exactly when the device's API list lacks the system
\* API; the unsubscribe of s and a further update(), on the table empty
\* again, change no handle and no flag: the storage handle stays non-null.
C21_ScenarioHandles ==
    [][/\ ScenarioFirstUpdate =>
              \A g \in Groups :
                  handle'[g] <=> \/ g \in {"storage", "information", "network"}
                                 \/ g = "system" /\ apis_system
       /\ ScenarioSecondUpdate =>
              /\ handle' = handle
              /\ with_api' = with_api
              /\ handle'["storage"]]_vars

\* C21 witness: the second update() of the scenario has evaluated the gate
\* after the last subscriber was removed: the storage handle is held, the
\* security, backup and cast handles are null.
C21_Witness ==
    /\ initialized
    /\ upd.pc = "fetching" /\ upd.caller = "poll"
    /\ last_sub = "unsubscribed"
    /\ DOMAIN fetching_entities = {}
    /\ handle["storage"] /\ handle["information"] /\ handle["network"]
    /\ ~handle["security"] /\ ~handle["backup"] /\ ~handle["cast"]
    /\ with_api["storage"] /\ ~with_api["security"]

\* C22 (as stated): recovery is a cycle Ready -> Reconnecting -> Ready: once
\* a reload has been requested, the entry is never left loaded on an
\* uninitialized facade for good; from such a state the facade becomes
\* initialized or another reload is requested.
C22_RecoveryCycle ==
    [](entry = "reloading" =>
          []((entry = "loaded" /\ ~initialized) =>
                <>(initialized \/ entry = "reloading")))

\* C25 (as stated): once a group's handle has been released every entity
\* reading from the group is guarded by an availability check: no state read
\* of a live entity dereferences a null handle.
C25_ReadsGuarded ==
    initialized => \A e \in EntityClasses : ~StateReadRaises(e)

\* A step of subscribe or of an unsubscribe closure: the only steps on a
\* loaded or reloading entry that change the table, the closures handed out
\* or the record of the last subscription call.
SubscriptionStep ==
    /\ entry \in {"loaded", "reloading"} /\ entry' = entry
    /\ \/ fetching_entities' # fetching_entities
       \/ closures' # closures
       \/ last_sub' # last_sub

\* C23: subscribe and the unsubscribe closure change only the subscription
\* table: every handle, every flag and the initialized flag are left as they
\* were, and no fetch is dispatched; the flags change at the next gate
\* evaluation only.
C23_SubscribeFrame ==
    [][SubscriptionStep =>
          /\ handle' = handle
          /\ with_api' = with_api
          /\ initialized' = initialized
          /\ upd' = upd /\ cst' = cst
          /\ reload_requests' = reload_requests]_vars

\* C23 witness: on an initialized facade storage has just gained a
\* subscriber while its flag is still off and its handle still null from the
\* last gate evaluation.
C23_Witness ==
    /\ initialized
    /\ last_sub = "subscribed"
    /\ HasSubscriber(fetching_entities, "storage")
    /\ ~with_api["storage"] /\ ~handle["storage"]

\* A step in which a cast_update() call finishes.
CastDoneStep == cst.pc = "fetching" /\ cst'.pc = "done"

C26_CommandRequestsRefresh ==
    (initialized /\ cmd.pc = "done" /\ cmd.kind = "media_player"
        /\ cmd.err = "ok") => cmd.refresh = "requested"

\* The lock is held exactly while a media-player command is in its device
\* call.
LockHeldByCaller ==
    state_lock = "held" <=>
        \/ cmd.pc = "calling" /\ TakesLock(cmd.kind)
        \/ cmd2.pc = "calling"

\* C27: the cast lock is never left held: a media-player command releases
\* it on every exit path, also when its device call raises or its handle is
\* None, and a command waiting on the lock eventually acquires it.
C27_LockReleased ==
    /\ []LockHeldByCaller
    /\ (cmd2.pc = "waiting") ~> (cmd2.pc # "waiting")

\* C27 witness: the first command's device call raised and the second
\* command, which had waited on the lock, now holds it.
C27_Witness ==
    /\ cmd.pc = "done" /\ cmd.kind = "media_player" /\ cmd.outcome = "raised"
    /\ cmd2.pc = "calling" /\ cmd2.waited
    /\ state_lock = "held"

\* C28 (as stated): for one session expiry at most one reload of the entry
\* is requested, also when the central and the cast poll both meet the
\* login-invalid failure.
C28_SingleReload == reload_requests <= 1

\* The target of a service call is not resolved: the serial it names is not
\* registered, or it is a reboot or shutdown without a serial while the
\* number of devices is not one.
TargetNotResolved(devices, service, serial) ==
    \/ serial # "" /\ serial \notin devices
    \/ /\ service \in {"reboot", "shutdown"}
       /\ serial = ""
       /\ Cardinality(devices) # 1

\* C29: a service call whose target is not resolved sends no command to any
\* device and leaves every device's SYSTEM_LOADED flag and the registered
\* devices as they were.
C29_UnresolvedTargetInert ==
    [][(svc.pc = "idle" /\ svc'.pc # "idle"
          /\ TargetNotResolved(svc.devices, svc'.service, svc'.serial)) =>
             /\ svc'.sent = "none"
             /\ svc'.loaded = svc.loaded
             /\ svc'.devices = svc.devices]_vars

\* C29 witness: with two devices registered and loaded a reboot without a
\* serial has been handled: nothing was sent and both devices are still
\* flagged loaded.
C29_Witness ==
    /\ svc.devices = Serials /\ svc.loaded = Serials
    /\ svc.pc = "returned"
    /\ svc.service = "reboot" /\ svc.serial = ""
    /\ svc.sent = "none"

\* C30: after a successful setup() the information and network handles of
\* that facade are non-null in every later state.
C30_InformationNetworkHeld ==
    initialized => handle["information"] /\ handle["network"]

\* C30 witness: on an initialized facade an update() pass has finished with
\* the information flag off, other groups having the only subscribers, and
\* the information and network handles are held.
C30_Witness ==
    /\ initialized
    /\ upd.pc = "done" /\ upd.err = "ok"
    /\ DOMAIN fetching_entities # {}
    /\ ~with_api["information"]
    /\ handle["information"] /\ handle["network"]

====
